---- MODULE Spec2Model ----
(***************************************************************************)
(* State-machine model of src/src/GameEngine.js: the grid of blocks, the   *)
(* drag gesture, the merge and its backfill, and the bounded history.      *)
(*                                                                         *)
(* Every engine method is an async function.  A call runs synchronously up *)
(* to its first await, and between two awaits its code is atomic; at an    *)
(* await any other handler may start or resume.  A handler invocation is a *)
(* task with a position (pc) and its locals; one action resumes a task     *)
(* from one await and runs it to its next await or to its end.             *)
(* Consecutive awaits with no engine state between them are one position,  *)
(* and a handler whose remaining code only awaits the handlers of its last *)
(* 'after' event has ended.                                                *)
(***************************************************************************)
EXTENDS Integers, Sequences, FiniteSets, TLC

\* ---- bounds of the model ------------------------------------------------
GridRows == 1
GridCols == 2
MaxRefs == 6
MaxOps == 4
MaxTasks == 2

\* ---- configuration of the engine ----------------------------------------
stateHistoryVersions == 2
RangeMin == 1
RangeMax == 2
IncrementPower == 2
\* hitBoxScale in tenths: 8 is the default 0.8
hitBoxScale == 8
ScaleUnit == 10

\* ---- the rendered grid ----------------------------------------------------
\* The grid element lays its children out in columns of equal width
\* (gridTemplateColumns/Rows, no gap is set): the element of the block in cell
\* (row, col) covers BlockSize x BlockSize pixels from (col, row) * BlockSize.
BlockSize == 20

\* ---- JavaScript values that are not non-negative integers ---------------
NaNVal == -1
UndefVal == -2
NullVal == -3
PayloadVal == -4
StrVal == -5
PayloadOther == -6
CustomVal == RangeMax + 1

NullRef == 0
Refs == 1..MaxRefs
Tasks == 1..MaxTasks

Cells == (0..(GridRows - 1)) \X (0..(GridCols - 1))
UndefCell == <<-1, -1>>
AllCells == Cells \cup {UndefCell}
Nowhere == <<-2, -2>>

NoId == <<-1, -1, -1>>
FreeObj == [kind |-> "free", value |-> UndefVal, row |-> -1, col |-> -1, id |-> NoId, el |-> "none"]

VARIABLES state, stateShape, heap, selectedBlocks, currentBlock, isDragging,
          stateHistory, gridEl, tasks, opsLeft, afterDragEnd, lastReturn,
          gesture, probe

vars == <<state, stateShape, heap, selectedBlocks, currentBlock, isDragging,
          stateHistory, gridEl, tasks, opsLeft, afterDragEnd, lastReturn,
          gesture, probe>>

\* ---- sequences ------------------------------------------------------------
Range(s) == {s[i] : i \in DOMAIN s}

RECURSIVE SelectSeqNe(_, _)
SelectSeqNe(s, x) ==
  IF s = <<>> THEN <<>>
  ELSE IF Head(s) = x THEN SelectSeqNe(Tail(s), x)
  ELSE <<Head(s)>> \o SelectSeqNe(Tail(s), x)

\* row-major order of the cells of the grid
CellSeq == [i \in 1..(GridRows * GridCols) |->
              <<(i - 1) \div GridCols, (i - 1) % GridCols>>]

\* ---- generateBlock: the list of legal values, as the loop builds it -----
\* a loop that adds the increment where the engine multiplies by it
RECURSIVE PotentialFromAdding(_, _, _)
PotentialFromAdding(value, max, p) ==
  IF value <= max THEN <<value>> \o PotentialFromAdding(value + p, max, p) ELSE <<>>

RECURSIVE PotentialFrom(_, _, _)
PotentialFrom(value, max, p) ==
  IF value <= max THEN <<value>> \o PotentialFrom(value * p, max, p) ELSE <<>>

potentialValues == PotentialFrom(RangeMin, RangeMax, IncrementPower)

\* Date.now(): the clock advances with every input the engine has received
Now == MaxOps - opsLeft

\* `block-${row}-${col}-${Date.now()}`
BlockId(row, col, now) == <<row, col, now>>

NewBlock(value, row, col, now) ==
  [kind |-> "block", value |-> value, row |-> row, col |-> col,
   id |-> BlockId(row, col, now), el |-> "none"]

\* what generateState puts in a cell: the promise generateBlock returned
NewPromise ==
  [kind |-> "promise", value |-> UndefVal, row |-> -1, col |-> -1,
   id |-> NoId, el |-> "none"]

\* ---- calculateMergeValue: blocks.reduce((acc, b) => acc + b.value, 0) ---
JsAdd(acc, v) ==
  IF acc = StrVal \/ v \in {StrVal, PayloadVal, PayloadOther} THEN StrVal
  ELSE IF acc = NaNVal \/ v = NaNVal \/ v = UndefVal THEN NaNVal
  ELSE IF v = NullVal THEN acc
  ELSE acc + v

RECURSIVE SumFrom(_, _, _)
SumFrom(acc, blocks, hp) ==
  IF blocks = <<>> THEN acc
  ELSE SumFrom(JsAdd(acc, hp[Head(blocks)].value), Tail(blocks), hp)

MergeSum(blocks, hp) == SumFrom(0, blocks, hp)

\* JS truthiness of a value
Truthy(v) == v \notin {0, NaNVal, UndefVal, NullVal}

\* ---- addToHistory -------------------------------------------------------
\* JSON.parse(JSON.stringify(v)) of a block's value
JsonValue(v) == IF v = NaNVal THEN NullVal ELSE v

\* const { el, ...rest } = block, then the JSON round trip
SnapshotCell(ref, hp) ==
  [row |-> hp[ref].row, col |-> hp[ref].col,
   value |-> JsonValue(hp[ref].value), id |-> hp[ref].id]

\* a null cell cannot be destructured; a payload record that holds the block
\* it is the value of (PayloadVal) is a circular structure; an undefined
\* state has no map method
SnapshotThrows(st, sh, hp) ==
  \/ sh = "undefined"
  \/ /\ sh = "grid"
     /\ \E c \in Cells : \/ st[c] = NullRef
                         \/ hp[st[c]].value = PayloadVal

Snapshot(st, sh, hp) ==
  IF sh = "grid" THEN [i \in 1..Len(CellSeq) |-> SnapshotCell(st[CellSeq[i]], hp)]
  ELSE <<>>

\* two histories the engine does not keep: one without a limit, and one that
\* drops the newest entry where the engine drops the oldest
PushHistoryNoLimit(hist, snap) == Append(hist, snap)

PushHistoryDropNewest(hist, snap) ==
  LET pushed == Append(hist, snap)
  IN IF Len(pushed) > stateHistoryVersions
     THEN SubSeq(pushed, 1, Len(pushed) - 1) ELSE pushed

PushHistory(hist, snap) ==
  LET pushed == Append(hist, snap)
  IN IF Len(pushed) > stateHistoryVersions THEN Tail(pushed) ELSE pushed

\* ---- tasks ----------------------------------------------------------------
IdleTask ==
  [kind |-> "idle", pc |-> "idle", start |-> FALSE, at |-> Nowhere,
   alias |-> FALSE, blocks |-> <<>>, targetBlock |-> NullRef, mergeValue |-> UndefVal,
   blocksToRemove |-> <<>>, rmIdx |-> 0, emptyPositions |-> <<>>,
   newBlock |-> NullRef, newBlocks |-> <<>>, oldSelection |-> <<>>,
   isValidMerge |-> FALSE,
   \* history variables of the invocation
   rule |-> "none", found |-> NullRef, idleAtCall |-> FALSE, ownArray |-> FALSE,
   earlier |-> {}, pushed |-> FALSE, evicted |-> FALSE, snap |-> <<>>,
   pmResult |-> "none", cancelled |-> "no", replaced |-> FALSE,
   entrySel |-> <<>>, entrySum |-> 0, entryOccupied |-> 0, vacated |-> {}]

NewTask(kind, pc) == [IdleTask EXCEPT !.kind = kind, !.pc = pc]

\* the blocks array a suspended processMerge holds: the selection array
\* itself while this.selectedBlocks still is that array, else its last content
BlocksOf(tk, sel) == IF tk.alias THEN sel ELSE tk.blocks

Busy(ts) == {t \in Tasks : ts[t].kind # "idle"}

FreeSlot == IF \E t \in Tasks : tasks[t].kind = "idle"
            THEN CHOOSE t \in Tasks : /\ tasks[t].kind = "idle"
                                      /\ \A u \in Tasks : tasks[u].kind = "idle" => t <= u
            ELSE 0

\* ---- the heap -------------------------------------------------------------
FreeRefs(hp) == {r \in Refs : hp[r].kind = "free"}

\* the n lowest free references
RECURSIVE AllocN(_, _)
AllocN(free, n) ==
  IF n = 0 THEN <<>>
  ELSE LET r == CHOOSE x \in free : \A y \in free : x <= y
       IN <<r>> \o AllocN(free \ {r}, n - 1)

TaskRoots(tk) ==
  Range(tk.blocks) \cup {tk.targetBlock} \cup Range(tk.blocksToRemove)
    \cup {tk.newBlock} \cup Range(tk.newBlocks) \cup Range(tk.oldSelection)
    \cup Range(tk.entrySel)

Roots(st, sel, cur, ts) ==
  {st[c] : c \in AllCells} \cup Range(sel) \cup {cur}
    \cup UNION {TaskRoots(ts[t]) : t \in Tasks}

\* objects no reference reaches are gone
Collect(hp, roots) == [r \in Refs |-> IF r \in roots THEN hp[r] ELSE FreeObj]

\* ---- a step of a task -----------------------------------------------------
\* afterDragEnd is the 'after: dragEnd' event the last step emitted, and
\* lastReturn how the call that ended in the last step ended, if any did
NoEvent == [seen |-> FALSE, merged |-> FALSE, pm |-> "none"]

NoReturn == [op |-> "none", res |-> "none", pm |-> "none", pushed |-> FALSE,
             cancelled |-> "no", replaced |-> FALSE, isValidMerge |-> FALSE,
             rule |-> "none", start |-> FALSE, found |-> NullRef]

\* no method is applied on its own
NoProbe == [kind |-> "none", done |-> FALSE]

\* the engine as the running task sees and changes it
View(t) ==
  [st |-> state, sh |-> stateShape, hp |-> heap, sel |-> selectedBlocks,
   cur |-> currentBlock, drg |-> isDragging, hist |-> stateHistory,
   gel |-> gridEl, ade |-> NoEvent, ret |-> NoReturn,
   tk |-> tasks[t], fresh |-> FALSE]

\* this.selectedBlocks = []: a new array; a suspended processMerge keeps the old
ClearSelection(c) == [c EXCEPT !.sel = <<>>, !.fresh = TRUE]

Commit(t, c) ==
  /\ state' = c.st
  /\ stateShape' = c.sh
  /\ selectedBlocks' = c.sel
  /\ currentBlock' = c.cur
  /\ isDragging' = c.drg
  /\ stateHistory' = c.hist
  /\ gridEl' = c.gel
  /\ afterDragEnd' = c.ade
  /\ lastReturn' = c.ret
  /\ tasks' = [u \in Tasks |->
                 IF u = t THEN c.tk
                 ELSE LET tu == IF c.tk.kind = "idle" /\ tasks[u].kind # "idle"
                                THEN [tasks[u] EXCEPT !.earlier = @ \ {t}]
                                ELSE tasks[u]
                          tv == IF c.fresh THEN [tu EXCEPT !.ownArray = FALSE] ELSE tu
                      IN IF c.fresh /\ tv.alias
                         THEN [tv EXCEPT !.blocks = selectedBlocks, !.alias = FALSE]
                         ELSE tv]
  /\ heap' = Collect(c.hp, Roots(c.st, c.sel, c.cur, tasks'))
  /\ UNCHANGED <<opsLeft, gesture, probe>>

\* the handler's promise settles: res is what it resolved to, or "threw"
Finish(c, res) ==
  [c EXCEPT !.ret = [op |-> c.tk.kind, res |-> res, pm |-> c.tk.pmResult,
                     pushed |-> c.tk.pushed, cancelled |-> c.tk.cancelled,
                     replaced |-> c.tk.replaced, isValidMerge |-> c.tk.isValidMerge,
                     rule |-> c.tk.rule, start |-> c.tk.start, found |-> c.tk.found],
            !.tk = IdleTask]

Suspend(c, pc) == [c EXCEPT !.tk.pc = pc]

\* ---- the event bus ---------------------------------------------------------
\* `await this.emit(name, payload)` resolves to { preventDefault, args }:
\* preventDefault is true when a handler cancelled the event, and args is the
\* payload unless a handler replaced it.  Handlers are the application's.
PreventDefault == BOOLEAN

ArgsReplaced == BOOLEAN

\* a handler cancelled the 'before' event of the call itself (gate) or of a
\* step inside it (inner); a handler replaced the payload of an 'after' event
CancelledGate(c) == [c EXCEPT !.tk.cancelled = "gate"]

Cancelled(c) == [c EXCEPT !.tk.cancelled = "inner"]

Replaced(c, yes) == IF yes THEN [c EXCEPT !.tk.replaced = TRUE] ELSE c

\* ---- getBlockAtPosition ---------------------------------------------------
\* getBoundingClientRect() of the element of the block in `cell`: a block is
\* rendered in the cell it occupies, and an element that is not in the
\* document has an empty rectangle at the origin
Rect(cell, el) ==
  IF el = "attached"
  THEN [left |-> cell[2] * BlockSize, right |-> (cell[2] + 1) * BlockSize,
        top |-> cell[1] * BlockSize, bottom |-> (cell[1] + 1) * BlockSize,
        width |-> BlockSize, height |-> BlockSize]
  ELSE [left |-> 0, right |-> 0, top |-> 0, bottom |-> 0, width |-> 0, height |-> 0]

\* the point is within the rendered bounds of the element
InRect(x, y, rect) ==
  /\ x >= rect.left /\ x <= rect.right
  /\ y >= rect.top /\ y <= rect.bottom

\* A box in units of 1/(2 * ScaleUnit) pixel, in which the halves of a width
\* scaled by tenths are whole numbers.
\* The rectangle scaled by `scale` about its centre: centre -/+ size * scale / 2
ScaledAboutCentre(rect, scale) ==
  [top |-> ScaleUnit * (rect.top + rect.bottom) - rect.height * scale,
   bottom |-> ScaleUnit * (rect.top + rect.bottom) + rect.height * scale,
   left |-> ScaleUnit * (rect.left + rect.right) - rect.width * scale,
   right |-> ScaleUnit * (rect.left + rect.right) + rect.width * scale]

\* lines 511-520: hitboxWidth = rect.width * scale, left = rect.left -
\* hitboxWidth / 2, right = rect.right + hitboxWidth / 2, likewise the height
HitBox(rect, scale) ==
  [top |-> 2 * ScaleUnit * rect.top - rect.height * scale,
   bottom |-> 2 * ScaleUnit * rect.bottom + rect.height * scale,
   left |-> 2 * ScaleUnit * rect.left - rect.width * scale,
   right |-> 2 * ScaleUnit * rect.right + rect.width * scale]

\* lines 523-528
InBox(x, y, box) ==
  /\ 2 * ScaleUnit * x >= box.left /\ 2 * ScaleUnit * x <= box.right
  /\ 2 * ScaleUnit * y >= box.top /\ 2 * ScaleUnit * y <= box.bottom

\* lines 499-534: the cells are scanned in row-major order, cells without a
\* block or whose block has no element are skipped, and the first block whose
\* hit box holds the point is returned, else null
getBlockAtPosition(st, sh, hp, scale, x, y) ==
  LET hits == {i \in 1..Len(CellSeq) :
                 /\ st[CellSeq[i]] # NullRef
                 /\ hp[st[CellSeq[i]]].el # "none"
                 /\ InBox(x, y, HitBox(Rect(CellSeq[i], hp[st[CellSeq[i]]].el), scale))}
  IN IF sh # "grid" \/ hits = {} THEN NullRef
     ELSE st[CellSeq[CHOOSE i \in hits : \A j \in hits : i <= j]]

\* the hit test of the engine for the pointer at the point `at`
BlockAt(c, at) == getBlockAtPosition(c.st, c.sh, c.hp, hitBoxScale, at[1], at[2])

\* ---- the pointer -------------------------------------------------------------
\* event.clientX, event.clientY: the centre of a cell, or the point of a cell
\* one tenth of its width from its left edge; Nowhere is an event that has
\* no coordinates (lines 476-486)
CentreOf(cell) ==
  <<cell[2] * BlockSize + BlockSize \div 2, cell[1] * BlockSize + BlockSize \div 2>>

LeftOf(cell) ==
  <<cell[2] * BlockSize + BlockSize \div ScaleUnit,
    cell[1] * BlockSize + BlockSize \div 2>>

PointerPoints ==
  {CentreOf(cell) : cell \in Cells} \cup {LeftOf(cell) : cell \in {x \in Cells : x[2] > 0}}

\* the cells whose block is rendered where the point is
RenderedAt(at, st, hp) ==
  {cell \in Cells : /\ st[cell] # NullRef
                    /\ hp[st[cell]].el = "attached"
                    /\ InRect(at[1], at[2], Rect(cell, "attached"))}

\* The gesture of the user: the pointer is down from a mousedown/touchstart
\* to the next mouseup/touchend; onBlock tells whether it went down on a
\* rendered block, and entered is the set of cells whose rendered block the
\* pointer has been on since it went down.
NoGesture == [down |-> FALSE, onBlock |-> FALSE, entered |-> {}]

PointerAt(g, start, at, st, hp) ==
  LET over == IF at = Nowhere THEN {} ELSE RenderedAt(at, st, hp)
  IN IF start THEN [down |-> TRUE, onBlock |-> over # {}, entered |-> over]
     ELSE IF g.down THEN [g EXCEPT !.entered = @ \cup over]
     ELSE g

\* ---- drag -----------------------------------------------------------------
\* a drag whose selection rules are not consulted
DragBodyIgnoringRules(c, ruleOk) ==
  LET c1 == IF c.tk.start THEN [ClearSelection(c) EXCEPT !.drg = TRUE] ELSE c
      block == BlockAt(c1, c.tk.at)
      c2 == [c1 EXCEPT !.tk.found = block]
  IN IF ~c.tk.start /\ ~c.drg THEN Finish(c, "undefined")
     ELSE IF c.tk.at = Nowhere THEN Finish(c1, "undefined")
     ELSE IF c1.sh = "undefined" THEN Finish(c1, "threw")
     ELSE IF block = NullRef THEN Finish(c1, "undefined")
     ELSE IF c1.cur = block THEN Finish(c2, "undefined")
     ELSE Finish([c2 EXCEPT !.cur = block, !.sel = Append(c1.sel, block),
                            !.tk.rule = IF ruleOk THEN "accepted" ELSE "rejected"],
                 "undefined")

\* lines 416-467, after 'before: drag' was not cancelled: `found` is the block
\* the hit test returned and `rule` what the selection rules said of it
DragBody(c, ruleOk) ==
  LET c1 == IF c.tk.start THEN [ClearSelection(c) EXCEPT !.drg = TRUE] ELSE c
      block == BlockAt(c1, c.tk.at)
      c2 == [c1 EXCEPT !.tk.found = block]
  IN IF ~c.tk.start /\ ~c.drg THEN Finish(c, "undefined")
     ELSE IF c.tk.at = Nowhere THEN Finish(c1, "undefined")
     ELSE IF c1.sh = "undefined" THEN Finish(c1, "threw")
     ELSE IF block = NullRef THEN Finish(c1, "undefined")
     ELSE IF c1.cur = block THEN Finish(c2, "undefined")
     ELSE IF ruleOk
          THEN Finish([c2 EXCEPT !.cur = block, !.sel = Append(c1.sel, block),
                                 !.tk.rule = "accepted"],
                      "undefined")
          ELSE Finish([c2 EXCEPT !.tk.rule = "rejected"], "undefined")

\* ---- dragEnd --------------------------------------------------------------
\* lines 576-591: the selection is cleared, highlights are removed and
\* 'after: dragEnd' is emitted
DragEndTail(c) ==
  LET old == c.sel
      c1 == [ClearSelection(c) EXCEPT !.tk.oldSelection = old]
      merged == c.tk.isValidMerge /\ Len(old) >= 2
      emitted == [c1 EXCEPT !.ade = [seen |-> TRUE, merged |-> merged,
                                      pm |-> c.tk.pmResult]]
  IN IF \E i \in DOMAIN old : c.hp[old[i]].el # "none"
     THEN Suspend(c1, "dragEnd_unhighlight")
     ELSE Finish(emitted, "undefined")

\* processMerge returns (res) or throws to the code that awaits it
Return(c, res) ==
  LET c1 == [c EXCEPT !.tk.pmResult = res, !.tk.alias = FALSE, !.tk.blocks = <<>>,
                      !.tk.snap = <<>>,
                      !.tk.targetBlock = NullRef, !.tk.mergeValue = UndefVal,
                      !.tk.blocksToRemove = <<>>, !.tk.rmIdx = 0,
                      !.tk.newBlock = NullRef, !.tk.newBlocks = <<>>]
  IN IF c.tk.kind = "dragEnd"
     THEN IF res = "threw" THEN Finish(c1, "threw") ELSE DragEndTail(c1)
     ELSE Finish(c1, IF res = "success" THEN "true"
                     ELSE IF res = "threw" THEN "threw" ELSE "false")

\* a gesture end that merges whatever the merge rules returned
DragEndBodyIgnoringRules(c, rulesOk) ==
  LET c1 == [c EXCEPT !.drg = FALSE, !.cur = NullRef,
                      !.tk.isValidMerge = rulesOk,
                      !.tk.ownArray = TRUE,
                      !.tk.entrySel = c.sel,
                      !.tk.entrySum = MergeSum(c.sel, c.hp)]
  IN IF Len(c.sel) = 0
     THEN Finish([c1 EXCEPT !.ade = [seen |-> TRUE, merged |-> FALSE, pm |-> "none"]],
                 "undefined")
     ELSE IF Len(c.sel) >= 2
          THEN Suspend(c1, "processMerge_before")
          ELSE DragEndTail(c1)

\* lines 549-574, after 'before: dragEnd' was not cancelled
DragEndBody(c, rulesOk) ==
  LET c1 == [c EXCEPT !.drg = FALSE, !.cur = NullRef,
                      !.tk.isValidMerge = rulesOk,
                      !.tk.ownArray = TRUE,
                      !.tk.entrySel = c.sel,
                      !.tk.entrySum = MergeSum(c.sel, c.hp)]
  IN IF Len(c.sel) = 0
     THEN Finish([c1 EXCEPT !.ade = [seen |-> TRUE, merged |-> FALSE, pm |-> "none"]],
                 "undefined")
     ELSE IF rulesOk /\ Len(c.sel) >= 2
          THEN Suspend(c1, "processMerge_before")
          ELSE DragEndTail(c1)

\* ---- processMerge ---------------------------------------------------------
CellOf(ref, hp) == <<hp[ref].row, hp[ref].col>>

Occupied(st) == Cardinality({cell \in Cells : st[cell] # NullRef})

\* lines 716-764, the loop of fillEmptyPositions from position Len(newBlocks)+1:
\* the next block is requested, or the list is returned to processMerge
FillNext(c) ==
  IF Len(c.tk.newBlocks) < Len(c.tk.emptyPositions)
  THEN Suspend(c, "generateBlock_before")
  ELSE Suspend(c, "processMerge_after")

\* lines 753-759: the block is installed in its cell.  On an undefined
\* state the row cannot be read.
Install(c) ==
  LET pos == c.tk.emptyPositions[Len(c.tk.newBlocks) + 1]
      c1 == [c EXCEPT !.st[pos] = c.tk.newBlock,
                      !.sh = "grid",
                      !.tk.newBlocks = Append(c.tk.newBlocks, c.tk.newBlock),
                      !.tk.newBlock = NullRef]
  IN IF c.sh = "undefined" THEN Return(c, "threw") ELSE FillNext(c1)

\* lines 691-698: the target takes the merge value and is rendered again
\* (renderBlock gives a block without an element a new, attached one)
UpdateTarget(c) ==
  LET t == c.tk.targetBlock
  IN Suspend([c EXCEPT !.hp[t].value = c.tk.mergeValue,
                       !.hp[t].el = IF c.hp[t].el = "none" THEN "attached"
                                    ELSE c.hp[t].el],
             "fillEmptyPositions_before")

\* lines 669-672: the block is removed from state if its cell still holds it
ClearCell(c, block) ==
  LET pos == CellOf(block, c.hp)
  IN IF c.sh # "undefined" /\ c.st[pos] = block
     THEN [c EXCEPT !.st[pos] = NullRef,
                    !.tk.vacated = IF pos \in Cells THEN c.tk.vacated \cup {pos}
                                   ELSE c.tk.vacated]
     ELSE c

\* lines 650-689: the loop over blocksToRemove from index rmIdx, run until
\* the next animation is awaited
RECURSIVE RemoveNext(_)
RemoveNext(c) ==
  IF c.tk.rmIdx > Len(c.tk.blocksToRemove)
  THEN IF c.hp[c.tk.targetBlock].el # "none"
       THEN Suspend(c, "target_animation")
       ELSE UpdateTarget(c)
  ELSE LET block == c.tk.blocksToRemove[c.tk.rmIdx]
       IN IF c.hp[block].el # "none"
          THEN Suspend(c, "remove_animation")
          ELSE RemoveNext([ClearCell(c, block) EXCEPT !.tk.rmIdx = c.tk.rmIdx + 1])

\* lines 663-672, when the animation of blocksToRemove[rmIdx] has ended
AfterRemoveAnimation(c) ==
  LET block == c.tk.blocksToRemove[c.tk.rmIdx]
      c1 == [c EXCEPT !.hp[block].el = "detached"]
  IN RemoveNext([ClearCell(c1, block) EXCEPT !.tk.rmIdx = c.tk.rmIdx + 1])

\* lines 636-647, with the merge value calculateMergeValue returned
AfterCalculate(c, mergeValue) ==
  LET blocks == BlocksOf(c.tk, c.sel)
      targetBlock == c.tk.targetBlock
      blocksToRemove == SelectSeqNe(blocks, targetBlock)
      c1 == [c EXCEPT !.tk.mergeValue = mergeValue,
                      !.tk.blocksToRemove = blocksToRemove,
                      !.tk.rmIdx = 1,
                      !.tk.emptyPositions =
                         [i \in DOMAIN blocksToRemove |-> CellOf(blocksToRemove[i], c.hp)],
                      !.tk.entryOccupied = Occupied(c.st),
                      !.tk.vacated = {}]
  IN IF Len(blocks) < 2 \/ targetBlock = NullRef
     THEN Return(c, "noop")
     ELSE RemoveNext(c1)

\* lines 628-634, after 'before: processMerge' was not cancelled
ProcessMergeBody(c) ==
  IF SnapshotThrows(c.st, c.sh, c.hp)
  THEN Return(c, "threw")
  ELSE Suspend([c EXCEPT !.hist = PushHistory(c.hist, Snapshot(c.st, c.sh, c.hp)),
                         !.tk.pushed = TRUE,
                         !.tk.evicted = (Len(c.hist) >= stateHistoryVersions),
                         !.tk.snap = Snapshot(c.st, c.sh, c.hp),
                         !.tk.alias = TRUE,
                         !.tk.targetBlock = c.cur],
               "calculateMergeValue_before")

\* lines 603-606: the payload of 'after: calculateMergeValue' is the record
\* { blocks, mergeValue }; it holds the target when the target is selected
MergePayload(c) ==
  IF c.tk.targetBlock \in Range(BlocksOf(c.tk, c.sel)) THEN PayloadVal ELSE PayloadOther

\* ---- generateBlock, as fillEmptyPositions awaits it -----------------------
\* Math.floor(Math.random() * potentialValues.length) indexes the list; an
\* empty list gives undefined
RandomValues == IF potentialValues = <<>> THEN {UndefVal} ELSE Range(potentialValues)

\* lines 304-333 and 726-751: a handler of 'after: generateBlock' may replace
\* the block (custom); the block gets its element when the grid element exists
GeneratedBlock(c, value, custom) ==
  LET pos == c.tk.emptyPositions[Len(c.tk.newBlocks) + 1]
      ref == AllocN(FreeRefs(c.hp), 1)[1]
      block == NewBlock(IF custom THEN CustomVal ELSE value, pos[1], pos[2], Now)
  IN [Replaced(c, custom) EXCEPT
        !.hp[ref] = [block EXCEPT !.el = IF c.gel THEN "attached" ELSE "none"],
        !.tk.newBlock = ref]

\* ---- reset, generateState, renderGrid -------------------------------------
\* lines 252-264: the children of the grid element are removed and every
\* cell of the state is rendered
RenderGrid(c) ==
  [c EXCEPT !.gel = TRUE,
            !.hp = [r \in Refs |->
                      IF r \in {c.st[cell] : cell \in Cells} \ {NullRef}
                      THEN [c.hp[r] EXCEPT !.el = "attached"]
                      ELSE IF c.hp[r].el = "attached"
                           THEN [c.hp[r] EXCEPT !.el = "detached"]
                           ELSE c.hp[r]]]

EmptyCells == [cell \in AllCells |-> NullRef]

\* lines 283-293 and 214: the new state holds what generateBlock returned
\* for every cell, a promise; a handler of 'after: generateState' may replace
\* the state, here by the blocks themselves with the values vals
NewState(c, replaced, vals) ==
  LET n == Len(CellSeq)
      refs == AllocN(FreeRefs(c.hp), n)
      obj(i) == IF replaced
                THEN NewBlock(vals[CellSeq[i]], CellSeq[i][1], CellSeq[i][2], Now)
                ELSE NewPromise
  IN [c EXCEPT !.sh = "grid",
               !.st = [cell \in AllCells |->
                         IF cell \in Cells
                         THEN refs[CHOOSE i \in 1..n : CellSeq[i] = cell]
                         ELSE NullRef],
               !.hp = [r \in Refs |->
                         IF \E i \in 1..n : refs[i] = r
                         THEN obj(CHOOSE i \in 1..n : refs[i] = r)
                         ELSE c.hp[r]]]

\* ---- the specification ----------------------------------------------------
Init ==
  /\ state = EmptyCells
  /\ stateShape = "empty"
  /\ heap = [r \in Refs |-> FreeObj]
  /\ selectedBlocks = <<>>
  /\ currentBlock = NullRef
  /\ isDragging = FALSE
  /\ stateHistory = <<>>
  /\ gridEl = FALSE
  /\ tasks = [t \in Tasks |-> IdleTask]
  /\ opsLeft = MaxOps
  /\ afterDragEnd = NoEvent
  /\ lastReturn = NoReturn
  /\ gesture = NoGesture
  /\ probe = NoProbe

\* a handler is called: it runs to its first await, the 'before' event
Call(tk) ==
  /\ opsLeft > 0
  /\ FreeSlot # 0
  /\ opsLeft' = opsLeft - 1
  /\ tasks' = [tasks EXCEPT ![FreeSlot] = [tk EXCEPT !.earlier = Busy(tasks)]]
  /\ afterDragEnd' = NoEvent
  /\ lastReturn' = NoReturn
  /\ UNCHANGED <<state, stateShape, heap, selectedBlocks, currentBlock, isDragging,
                 stateHistory, gridEl, probe>>

\* mousedown, touchstart (start) or mousemove, touchmove over a point
CallDrag ==
  \E start \in BOOLEAN, at \in PointerPoints \cup {Nowhere} :
    /\ Call([NewTask("drag", "drag_before") EXCEPT !.start = start, !.at = at,
                                                   !.idleAtCall = ~isDragging])
    /\ gesture' = PointerAt(gesture, start, at, state, heap)

\* mouseup, touchend, touchcancel
CallDragEnd ==
  /\ Call(NewTask("dragEnd", "dragEnd_before"))
  /\ gesture' = [gesture EXCEPT !.down = FALSE]

CallReset == Call(NewTask("reset", "reset_before")) /\ UNCHANGED gesture

CallProcessMerge ==
  Call(NewTask("processMerge", "processMerge_before")) /\ UNCHANGED gesture

At(t, pc) == tasks[t].kind # "idle" /\ tasks[t].pc = pc

DragBefore ==
  \E t \in Tasks, cancel \in PreventDefault, ruleOk \in BOOLEAN :
    /\ At(t, "drag_before")
    /\ Commit(t, IF cancel THEN Finish(CancelledGate(View(t)), "undefined")
                 ELSE DragBody(View(t), ruleOk))

DragEndBefore ==
  \E t \in Tasks, cancel \in PreventDefault, rulesOk \in BOOLEAN :
    /\ At(t, "dragEnd_before")
    /\ Commit(t, IF cancel THEN Finish(CancelledGate(View(t)), "undefined")
                 ELSE DragEndBody(View(t), rulesOk))

DragEndUnhighlight ==
  \E t \in Tasks :
    /\ At(t, "dragEnd_unhighlight")
    /\ LET c == View(t)
           merged == c.tk.isValidMerge /\ Len(c.tk.oldSelection) >= 2
       IN Commit(t, Finish([c EXCEPT !.ade = [seen |-> TRUE, merged |-> merged,
                                               pm |-> c.tk.pmResult]],
                           "undefined"))

ProcessMergeBefore ==
  \E t \in Tasks, cancel \in PreventDefault :
    /\ At(t, "processMerge_before")
    /\ LET c == View(t)
       IN Commit(t, IF cancel
                    THEN Return(IF c.tk.kind = "processMerge" THEN CancelledGate(c)
                                ELSE Cancelled(c), "cancelled")
                    ELSE ProcessMergeBody(c))

\* calculateMergeValue, lines 600-603: cancelled it returns null, else the sum
CalculateBefore ==
  \E t \in Tasks, cancel \in PreventDefault :
    /\ At(t, "calculateMergeValue_before")
    /\ LET c == View(t)
       IN Commit(t, IF cancel THEN AfterCalculate(Cancelled(c), NullVal)
                    ELSE Suspend([c EXCEPT !.tk.mergeValue =
                                              MergeSum(BlocksOf(c.tk, c.sel), c.hp)],
                                 "calculateMergeValue_after"))

\* lines 605-606: afterEvent.args || mergeValue, where args is the payload of
\* the event unless a handler replaced it (override: by the sum itself)
CalculateAfter ==
  \E t \in Tasks, override \in ArgsReplaced :
    /\ At(t, "calculateMergeValue_after")
    /\ LET c == View(t)
           args == IF override THEN c.tk.mergeValue ELSE MergePayload(c)
       IN Commit(t, AfterCalculate(Replaced(c, override),
                                   IF Truthy(args) THEN args ELSE c.tk.mergeValue))

\* an animation ends only on an element that is rendered
RemoveAnimationEnd ==
  \E t \in Tasks :
    /\ At(t, "remove_animation")
    /\ heap[tasks[t].blocksToRemove[tasks[t].rmIdx]].el = "attached"
    /\ Commit(t, AfterRemoveAnimation(View(t)))

TargetAnimationEnd ==
  \E t \in Tasks :
    /\ At(t, "target_animation")
    /\ heap[tasks[t].targetBlock].el = "attached"
    /\ Commit(t, UpdateTarget(View(t)))

FillBefore ==
  \E t \in Tasks, cancel \in PreventDefault :
    /\ At(t, "fillEmptyPositions_before")
    /\ Commit(t, IF cancel THEN Suspend(Cancelled(View(t)), "processMerge_after")
                 ELSE FillNext(View(t)))

\* lines 305-306 and 724-730: a cancelled generateBlock returns null, and
\* null has no value to read when the grid element exists
GenerateBlockBefore ==
  \E t \in Tasks, cancel \in PreventDefault, value \in RandomValues, custom \in ArgsReplaced :
    /\ At(t, "generateBlock_before")
    /\ LET c == View(t)
       IN IF cancel
          THEN Commit(t, IF c.gel THEN Return(Cancelled(c), "threw")
                         ELSE Install(Cancelled(c)))
          ELSE /\ FreeRefs(heap) # {}
               /\ Commit(t, IF c.gel
                            THEN Suspend(GeneratedBlock(c, value, custom), "block_pending")
                            ELSE Install(GeneratedBlock(c, value, custom)))

\* the falling animation of the new block has ended
BlockPendingEnd ==
  \E t \in Tasks :
    /\ At(t, "block_pending")
    /\ heap[tasks[t].newBlock].el = "attached"
    /\ Commit(t, Install(View(t)))

ProcessMergeAfter ==
  \E t \in Tasks :
    /\ At(t, "processMerge_after")
    /\ Commit(t, Return(View(t), "success"))

\* a reset that clears the selection before it asks whether it is cancelled
ResetBeforeClearingFirst ==
  \E t \in Tasks, cancel \in PreventDefault :
    /\ At(t, "reset_before")
    /\ LET c == [ClearSelection(View(t)) EXCEPT !.cur = NullRef]
       IN Commit(t, IF cancel THEN Finish(CancelledGate(c), "undefined")
                    ELSE Suspend(c, "generateState_before"))

\* a reset that clears the history with the selection
ResetBeforeClearingHistory ==
  \E t \in Tasks, cancel \in PreventDefault :
    /\ At(t, "reset_before")
    /\ LET c == View(t)
       IN Commit(t, IF cancel THEN Finish(CancelledGate(c), "undefined")
                    ELSE Suspend([ClearSelection(c) EXCEPT !.cur = NullRef,
                                                           !.hist = <<>>],
                                 "generateState_before"))

\* lines 206-212: selection and current block are cleared unless a handler of
\* 'before: reset' cancelled
ResetBefore ==
  \E t \in Tasks, cancel \in PreventDefault :
    /\ At(t, "reset_before")
    /\ LET c == View(t)
       IN Commit(t, IF cancel THEN Finish(CancelledGate(c), "undefined")
                    ELSE Suspend([ClearSelection(c) EXCEPT !.cur = NullRef],
                                 "generateState_before"))

\* lines 279-280 and 214-217: a cancelled generateState returns undefined,
\* which becomes the state, and renderGrid cannot read its rows
GenerateStateBefore ==
  \E t \in Tasks, cancel \in PreventDefault :
    /\ At(t, "generateState_before")
    /\ LET c == View(t)
       IN Commit(t, IF cancel
                    THEN Finish(RenderGrid([Cancelled(c) EXCEPT !.sh = "undefined",
                                                               !.st = EmptyCells]),
                                "threw")
                    ELSE Suspend(c, "generateState_after"))

GenerateStateAfter ==
  \E t \in Tasks, replaced \in ArgsReplaced, vals \in [Cells -> RandomValues] :
    /\ At(t, "generateState_after")
    /\ Cardinality(FreeRefs(heap)) >= Len(CellSeq)
    /\ Commit(t, Finish(RenderGrid(NewState(Replaced(View(t), replaced), replaced, vals)),
                         "undefined"))

Next ==
  \/ CallDrag
  \/ CallDragEnd
  \/ CallReset
  \/ CallProcessMerge
  \/ DragBefore
  \/ DragEndBefore
  \/ DragEndUnhighlight
  \/ ProcessMergeBefore
  \/ CalculateBefore
  \/ CalculateAfter
  \/ RemoveAnimationEnd
  \/ TargetAnimationEnd
  \/ FillBefore
  \/ GenerateBlockBefore
  \/ BlockPendingEnd
  \/ ProcessMergeAfter
  \/ ResetBefore
  \/ GenerateStateBefore
  \/ GenerateStateAfter

Spec == Init /\ [][Next]_vars

\* The same engine when no handler is called while another is in progress:
\* every call completes (or fails) before the next input arrives.
NoneInProgress == Busy(tasks) = {}

NextSerial ==
  \/ NoneInProgress /\ CallDrag
  \/ NoneInProgress /\ CallDragEnd
  \/ NoneInProgress /\ CallReset
  \/ NoneInProgress /\ CallProcessMerge
  \/ DragBefore
  \/ DragEndBefore
  \/ DragEndUnhighlight
  \/ ProcessMergeBefore
  \/ CalculateBefore
  \/ CalculateAfter
  \/ RemoveAnimationEnd
  \/ TargetAnimationEnd
  \/ FillBefore
  \/ GenerateBlockBefore
  \/ BlockPendingEnd
  \/ ProcessMergeAfter
  \/ ResetBefore
  \/ GenerateStateBefore
  \/ GenerateStateAfter

SpecSerial == Init /\ [][NextSerial]_vars

\* the engine after its first reset: every cell holds what generateState put
\* there, rendered
AfterFirstReset ==
  RenderGrid(NewState([st |-> EmptyCells, sh |-> "empty",
                       hp |-> [r \in Refs |-> FreeObj], gel |-> FALSE],
                      FALSE, [cell \in Cells |-> UndefVal]))

\* The engine from its first reset on: initialize() has awaited reset(), the
\* grid is rendered, and any handlers are called.
InitAfterReset ==
  /\ state = AfterFirstReset.st
  /\ stateShape = AfterFirstReset.sh
  /\ heap = AfterFirstReset.hp
  /\ gridEl = AfterFirstReset.gel
  /\ selectedBlocks = <<>>
  /\ currentBlock = NullRef
  /\ isDragging = FALSE
  /\ stateHistory = <<>>
  /\ tasks = [t \in Tasks |-> IdleTask]
  /\ opsLeft = MaxOps
  /\ afterDragEnd = NoEvent
  /\ lastReturn = NoReturn
  /\ gesture = NoGesture
  /\ probe = NoProbe

SpecAfterReset == InitAfterReset /\ [][Next]_vars

\* ---- getBlockAtPosition, applied to a rendered grid ------------------------
\* hitBoxScale is options.hitBoxScale || 0.8 (line 138): any non-zero number
HitBoxScales == {ScaleUnit \div 2, hitBoxScale, ScaleUnit, 2 * ScaleUnit}

\* the points of the page up to one block away from the grid
HitXs == (0 - BlockSize)..((GridCols + 1) * BlockSize)

HitYs == (0 - BlockSize)..((GridRows + 1) * BlockSize)

InitHit ==
  /\ state = AfterFirstReset.st
  /\ stateShape = AfterFirstReset.sh
  /\ heap = AfterFirstReset.hp
  /\ gridEl = AfterFirstReset.gel
  /\ selectedBlocks = <<>>
  /\ currentBlock = NullRef
  /\ isDragging = FALSE
  /\ stateHistory = <<>>
  /\ tasks = [t \in Tasks |-> IdleTask]
  /\ opsLeft = MaxOps
  /\ afterDragEnd = NoEvent
  /\ lastReturn = NoReturn
  /\ gesture = NoGesture
  /\ probe \in {[kind |-> "hit", done |-> FALSE, scale |-> s, x |-> x, y |-> y,
                 block |-> NullRef] : s \in HitBoxScales, x \in HitXs, y \in HitYs}

\* getBlockAtPosition(x, y) is called and returns
HitTest ==
  /\ probe.kind = "hit"
  /\ ~probe.done
  /\ probe' = [probe EXCEPT !.done = TRUE,
                            !.block = getBlockAtPosition(state, stateShape, heap,
                                                         probe.scale, probe.x, probe.y)]
  /\ UNCHANGED <<state, stateShape, heap, selectedBlocks, currentBlock, isDragging,
                 stateHistory, gridEl, tasks, opsLeft, afterDragEnd, lastReturn,
                 gesture>>

NextHit == HitTest

SpecHit == InitHit /\ [][NextHit]_vars

\* ---- generateBlock, applied to a configured engine -------------------------
MaxRangeMin == 3
MaxRangeMax == 16
MaxPower == 3

\* line 309: this.range.incrementPower || 2
EffectivePower(p) == IF p = 0 THEN 2 ELSE p

\* lines 312-315: the loop does not end when multiplying never passes max
LoopsForever(min, max, p) == min <= max /\ (min <= 0 \/ EffectivePower(p) = 1)

\* lines 318-319: potentialValues[randomIndex]; an empty list gives undefined
ValuesOf(min, max, p) ==
  LET list == PotentialFrom(min, max, EffectivePower(p))
  IN IF list = <<>> THEN {UndefVal} ELSE Range(list)

\* the constructor takes range.min, range.max and range.incrementPower from
\* the options as they are (lines 130-132); generateBlock may be called on an
\* engine that was only constructed
InitGenerate ==
  /\ state = EmptyCells
  /\ stateShape = "empty"
  /\ heap = [r \in Refs |-> FreeObj]
  /\ selectedBlocks = <<>>
  /\ currentBlock = NullRef
  /\ isDragging = FALSE
  /\ stateHistory = <<>>
  /\ gridEl = FALSE
  /\ tasks = [t \in Tasks |-> IdleTask]
  /\ opsLeft = MaxOps
  /\ afterDragEnd = NoEvent
  /\ lastReturn = NoReturn
  /\ gesture = NoGesture
  /\ probe \in {[kind |-> "generate", done |-> FALSE, min |-> min, max |-> max,
                 p |-> p, row |-> cell[1], col |-> cell[2],
                 res |-> "pending", value |-> UndefVal, brow |-> -1, bcol |-> -1] :
                  min \in 1..MaxRangeMin, max \in 0..MaxRangeMax, p \in 0..MaxPower,
                  cell \in Cells}

\* lines 304-333: generateBlock(row, col) resolves to null when a handler
\* cancelled, to the handler's object when a handler of 'after:
\* generateBlock' replaced the block, else to the block { value, row, col };
\* it never resolves when the loop does not end
GenerateBlockCall ==
  \E cancel \in PreventDefault, replaced \in ArgsReplaced :
    /\ probe.kind = "generate"
    /\ ~probe.done
    /\ IF cancel
       THEN probe' = [probe EXCEPT !.done = TRUE, !.res = "null"]
       ELSE IF LoopsForever(probe.min, probe.max, probe.p)
       THEN probe' = [probe EXCEPT !.done = TRUE, !.res = "never"]
       ELSE \E value \in ValuesOf(probe.min, probe.max, probe.p) :
              probe' = [probe EXCEPT !.done = TRUE,
                                     !.res = IF replaced THEN "replaced" ELSE "block",
                                     !.value = value,
                                     !.brow = probe.row, !.bcol = probe.col]
    /\ UNCHANGED <<state, stateShape, heap, selectedBlocks, currentBlock, isDragging,
                   stateHistory, gridEl, tasks, opsLeft, afterDragEnd, lastReturn,
                   gesture>>

NextGenerate == GenerateBlockCall

SpecGenerate == InitGenerate /\ [][NextGenerate]_vars

TypeOK ==
  /\ stateShape \in {"empty", "grid", "undefined"}
  /\ \A cell \in AllCells : state[cell] \in Refs \cup {NullRef}
  /\ \A cell \in AllCells : state[cell] # NullRef => heap[state[cell]].kind # "free"
  /\ \A i \in DOMAIN selectedBlocks : heap[selectedBlocks[i]].kind # "free"
  /\ Len(stateHistory) >= 0

\* ---- what the claims speak of ---------------------------------------------
\* the task whose code ran in a step
Stepped(t) ==
  /\ tasks[t].kind # "idle"
  /\ \/ tasks'[t].kind # tasks[t].kind
     \/ tasks'[t].pc # tasks[t].pc
     \/ tasks'[t].rmIdx # tasks[t].rmIdx
     \/ tasks'[t].newBlocks # tasks[t].newBlocks

\* a dragEnd call ends in this step, normally or with an error
DragEndEnds(t) == tasks[t].kind = "dragEnd" /\ tasks'[t].kind = "idle"

InputTask(tk) == tk.kind \in {"drag", "dragEnd"}

ProcessMergePcs ==
  {"processMerge_before", "calculateMergeValue_before", "calculateMergeValue_after",
   "remove_animation", "target_animation", "fillEmptyPositions_before",
   "generateBlock_before", "block_pending", "processMerge_after"}

\* the merge has passed its checks and starts to change the grid
MergeStarts(t) ==
  /\ tasks[t].kind # "idle"
  /\ tasks[t].pc \in {"calculateMergeValue_before", "calculateMergeValue_after"}
  /\ tasks'[t].kind # "idle"
  /\ tasks'[t].pc \in {"remove_animation", "target_animation", "fillEmptyPositions_before"}

\* row, col, value and id of every cell as they are
CellRecord(cell) ==
  IF stateShape = "grid" /\ state[cell] # NullRef
  THEN [row |-> cell[1], col |-> cell[2],
        value |-> heap[state[cell]].value, id |-> heap[state[cell]].id]
  ELSE [row |-> cell[1], col |-> cell[2], value |-> NullVal, id |-> NoId]

GridRecord == [i \in 1..Len(CellSeq) |-> CellRecord(CellSeq[i])]

\* the content of every cell is the same before and after the step
GridSame ==
  /\ state' = state
  /\ stateShape' = stateShape
  /\ \A cell \in AllCells : state[cell] # NullRef => heap'[state[cell]] = heap[state[cell]]

\* C1 (as claimed): when a dragEnd that found at least two blocks selected,
\* with every merge rule passing, no event cancelled and no payload replaced,
\* has completed, the cell of the last-selected block holds that block and the
\* block's value is the sum of the values of the selected blocks.  Stated for
\* selections of blocks that carry a row, a col and a value.
C1_Claim ==
  [][\A t \in Tasks :
       (/\ DragEndEnds(t)
        /\ lastReturn'.res = "undefined"
        /\ lastReturn'.cancelled = "no"
        /\ ~lastReturn'.replaced
        /\ lastReturn'.isValidMerge
        /\ Len(tasks[t].entrySel) >= 2
        /\ \A i \in DOMAIN tasks[t].entrySel : heap[tasks[t].entrySel[i]].kind = "block")
       => LET target == tasks[t].entrySel[Len(tasks[t].entrySel)]
          IN /\ state'[CellOf(target, heap)] = target
             /\ heap'[target].value = tasks[t].entrySum]_vars

\* C2 (as claimed): a processMerge that ends as a no-op (no target, or fewer
\* than two blocks), with no event cancelled and no payload replaced, returns
\* false and has pushed no history entry.
C2_Claim ==
  (lastReturn.pm = "noop" /\ lastReturn.cancelled = "no" /\ ~lastReturn.replaced) =>
    /\ ~lastReturn.pushed
    /\ lastReturn.op = "processMerge" => lastReturn.res = "false"

\* C3 (as claimed): input handling is serialized: a drag or dragEnd call
\* changes selectedBlocks, currentBlock, isDragging or the grid only when no
\* drag or dragEnd call made before it is still suspended.
C3_Claim ==
  [][\A t \in Tasks :
       (/\ InputTask(tasks[t])
        /\ Stepped(t)
        /\ <<selectedBlocks, currentBlock, isDragging, state, stateShape>>'
             # <<selectedBlocks, currentBlock, isDragging, state, stateShape>>)
       => \A u \in tasks[t].earlier : ~InputTask(tasks[u])]_vars

\* C4 (as claimed): when a merge with no event cancelled and no payload
\* replaced has completed its backfill, every vacated cell holds one of the
\* new blocks with a legal value, as many blocks were created as cells were
\* vacated, and as many cells are occupied as before the merge.
C4_Claim ==
  \A t \in Tasks :
    (/\ tasks[t].kind # "idle"
     /\ tasks[t].pc = "processMerge_after"
     /\ tasks[t].cancelled = "no"
     /\ ~tasks[t].replaced)
    => /\ \A cell \in tasks[t].vacated :
            /\ state[cell] \in Range(tasks[t].newBlocks) \ {NullRef}
            /\ heap[state[cell]].value \in RandomValues
       /\ Len(tasks[t].newBlocks) = Cardinality(tasks[t].vacated)
       /\ Occupied(state) = tasks[t].entryOccupied

\* C5: the length of stateHistory never exceeds stateHistoryVersions.
C5_HistoryBounded == Len(stateHistory) <= stateHistoryVersions

\* a snapshot was appended to a full history
C5_Witness ==
  \E t \in Tasks : /\ tasks[t].kind # "idle"
                   /\ tasks[t].evicted
                   /\ Len(stateHistory) = stateHistoryVersions

\* C6 (as claimed): the entry a successful merge appended records the row,
\* col, value and id of every cell as they are when the merge starts to
\* change the grid.  Stated for merges in which no event was cancelled and no
\* payload replaced.
C6_Claim ==
  [][\A t \in Tasks :
       (MergeStarts(t) /\ tasks'[t].cancelled = "no" /\ ~tasks'[t].replaced)
       => tasks[t].snap = GridRecord]_vars

\* C7: a snapshot appended to a history that holds stateHistoryVersions
\* entries removes exactly the oldest entry and keeps the order of the rest;
\* appended to a shorter history it removes nothing.
C7_OldestEvicted ==
  [][\A t \in Tasks :
       (tasks[t].kind # "idle" /\ ~tasks[t].pushed
          /\ tasks'[t].kind # "idle" /\ tasks'[t].pushed)
       => stateHistory' =
            Append(IF Len(stateHistory) = stateHistoryVersions
                   THEN Tail(stateHistory) ELSE stateHistory,
                   Snapshot(state, stateShape, heap))]_vars

\* a snapshot was appended to a full history whose entries differ
C7_Witness ==
  \E t \in Tasks : /\ tasks[t].kind # "idle"
                   /\ tasks[t].evicted
                   /\ Len(stateHistory) = stateHistoryVersions
                   /\ stateHistory[1] # stateHistory[Len(stateHistory)]

\* C8 (as claimed): the merged flag of 'after: dragEnd' is true exactly when
\* processMerge ran in that dragEnd and returned success.
C8_Claim ==
  afterDragEnd.seen => (afterDragEnd.merged <=> afterDragEnd.pm = "success")

\* C9 (as claimed): when a dragEnd call whose 'before: dragEnd' event was not
\* cancelled ends, isDragging is false, currentBlock is unset and
\* selectedBlocks is empty.
C9_Claim ==
  [][\A t \in Tasks :
       (DragEndEnds(t) /\ lastReturn'.cancelled # "gate")
       => /\ ~isDragging'
          /\ currentBlock' = NullRef
          /\ selectedBlocks' = <<>>]_vars

\* the merge rules ran in this dragEnd and one returned false
RuleRejected(t) ==
  /\ tasks[t].kind = "dragEnd"
  /\ Stepped(t)
  /\ \/ /\ tasks[t].pc = "dragEnd_before"
        /\ selectedBlocks # <<>>
        /\ \/ tasks'[t].kind = "dragEnd" /\ ~tasks'[t].isValidMerge
           \/ /\ tasks'[t].kind = "idle"
              /\ lastReturn'.cancelled = "no"
              /\ ~lastReturn'.isValidMerge
     \/ tasks[t].pc = "dragEnd_unhighlight" /\ ~tasks[t].isValidMerge

\* C10: a dragEnd in which a merge rule returned false never invokes
\* processMerge, and no step of it changes the content of a grid cell.
C10_RejectedMergeLeavesGrid ==
  [][\A t \in Tasks :
       RuleRejected(t) => /\ tasks'[t].pc \notin ProcessMergePcs
                          /\ stateHistory' = stateHistory
                          /\ GridSame]_vars

\* a dragEnd with two selected blocks was rejected by a merge rule
C10_Witness ==
  \E t \in Tasks : /\ tasks[t].kind = "dragEnd"
                   /\ tasks[t].pc = "dragEnd_unhighlight"
                   /\ ~tasks[t].isValidMerge
                   /\ Len(tasks[t].oldSelection) >= 2

\* C11: selectedBlocks gains a block only in a drag in which every selection
\* rule returned true for the block under the pointer; a drag in which a rule
\* returned false leaves selectedBlocks as it was (empty, at a gesture start)
\* and currentBlock as it was.  So a gesture whose rule returns false for
\* every candidate keeps selectedBlocks empty, whatever blocks the pointer
\* passes over.
C11_RejectedNeverSelected ==
  [][/\ (selectedBlocks' # selectedBlocks /\ selectedBlocks' # <<>>)
          => (lastReturn'.op = "drag" /\ lastReturn'.rule = "accepted")
     /\ (lastReturn'.op = "drag" /\ lastReturn'.rule = "rejected")
          => /\ selectedBlocks' = IF lastReturn'.start THEN <<>> ELSE selectedBlocks
             /\ currentBlock' = currentBlock]_vars

\* during a gesture the pointer moved onto a block, a selection rule
\* returned false for it, and the selection is empty
C11_Witness ==
  /\ lastReturn.op = "drag"
  /\ lastReturn.rule = "rejected"
  /\ ~lastReturn.start
  /\ lastReturn.found # NullRef
  /\ isDragging
  /\ selectedBlocks = <<>>

\* a dragEnd step of a gesture that went down on a block and entered no
\* second block
SingleBlockGestureEnds(t) ==
  /\ tasks[t].kind = "dragEnd"
  /\ tasks[t].pc \in {"dragEnd_before", "dragEnd_unhighlight"}
  /\ Stepped(t)
  /\ lastReturn'.cancelled # "gate"
  /\ gesture.onBlock
  /\ Cardinality(gesture.entered) <= 1

\* C12 (as claimed): when a gesture that went down on a block ends without
\* the pointer having been on a second block, at most one block is selected,
\* processMerge is not invoked, and 'after: dragEnd' reports merged = false,
\* whatever the merge rules return.
C12_Claim ==
  [][\A t \in Tasks :
       SingleBlockGestureEnds(t)
       => /\ Len(selectedBlocks) <= 1
          /\ tasks'[t].pc \notin ProcessMergePcs
          /\ afterDragEnd'.seen => ~afterDragEnd'.merged]_vars

\* C13 (as claimed): when a reset that was not cancelled, and whose state no
\* handler replaced, has completed, every cell of the grid holds a block whose
\* row and col are the cell's and whose value is a legal value.
C13_Claim ==
  (/\ lastReturn.op = "reset"
   /\ lastReturn.res = "undefined"
   /\ lastReturn.cancelled = "no"
   /\ ~lastReturn.replaced)
  => /\ stateShape = "grid"
     /\ \A cell \in Cells :
          /\ state[cell] # NullRef
          /\ heap[state[cell]].kind = "block"
          /\ heap[state[cell]].row = cell[1]
          /\ heap[state[cell]].col = cell[2]
          /\ heap[state[cell]].value \in RandomValues

\* C15: a reset whose 'before: reset' event a handler cancelled changes no
\* cell of the grid, nor selectedBlocks, nor currentBlock.
C15_CancelledResetChangesNothing ==
  [][\A t \in Tasks :
       (tasks[t].kind = "reset" /\ tasks'[t].kind = "idle"
          /\ lastReturn'.cancelled = "gate")
       => /\ GridSame
          /\ selectedBlocks' = selectedBlocks
          /\ currentBlock' = currentBlock]_vars

\* a reset was cancelled while blocks were selected on a rendered grid
C15_Witness ==
  /\ lastReturn.op = "reset"
  /\ lastReturn.cancelled = "gate"
  /\ stateShape = "grid"
  /\ selectedBlocks # <<>>
  /\ currentBlock # NullRef

C19_Claim ==
  (/\ lastReturn.op = "drag"
   /\ lastReturn.start
   /\ lastReturn.cancelled = "no"
   /\ lastReturn.res = "undefined"
   /\ lastReturn.found # NullRef)
  => /\ isDragging
     /\ lastReturn.rule # "none"
     /\ lastReturn.rule = "accepted"
          => /\ selectedBlocks = <<lastReturn.found>>
             /\ currentBlock = lastReturn.found

\* C20 (as claimed): no block appears in selectedBlocks more than once.
C20_Claim ==
  \A i, j \in DOMAIN selectedBlocks : i # j => selectedBlocks[i] # selectedBlocks[j]

\* v is min * p^k for some k >= 0
RECURSIVE IsPowerMultiple(_, _, _)
IsPowerMultiple(v, min, p) ==
  \/ v = min
  \/ /\ v > min
     /\ v % p = 0
     /\ IsPowerMultiple(v \div p, min, p)

\* C14: for min <= max and incrementPower p >= 2, a block generateBlock(row,
\* col) returned, no handler having replaced it, carries the requested row and
\* col and a value min * p^k, k >= 0, within [min, max]; for min = 2, max = 16,
\* p = 2 the value is one of 2, 4, 8, 16.
C14_GeneratedBlockLegal ==
  (/\ probe.kind = "generate"
   /\ probe.done
   /\ probe.res = "block"
   /\ probe.min <= probe.max
   /\ probe.p >= 2)
  => /\ probe.brow = probe.row
     /\ probe.bcol = probe.col
     /\ probe.value >= probe.min
     /\ probe.value <= probe.max
     /\ IsPowerMultiple(probe.value, probe.min, probe.p)
     /\ (probe.min = 2 /\ probe.max = 16 /\ probe.p = 2) => probe.value \in {2, 4, 8, 16}

\* generateBlock returned the block of value 16 for min = 2, max = 16, p = 2
C14_Witness ==
  /\ probe.kind = "generate"
  /\ probe.done
  /\ probe.res = "block"
  /\ probe.min = 2 /\ probe.max = 16 /\ probe.p = 2
  /\ probe.value = 16

\* C17 (as claimed): with range.min > range.max a generateBlock that was not
\* cancelled fails with an error, and no block generateBlock made carries a
\* value that is not a legal value.
C17_Claim ==
  (probe.kind = "generate" /\ probe.done)
  => /\ (probe.min > probe.max /\ probe.res # "null") => probe.res = "error"
     /\ probe.res = "block"
          => /\ probe.value >= probe.min
             /\ probe.value <= probe.max

\* the cell that holds the block
CellHolding(ref) == CHOOSE cell \in Cells : state[cell] = ref

\* C18 (as claimed): getBlockAtPosition returns a block only for a point
\* inside the block's rendered rectangle scaled by hitBoxScale about its
\* centre.
C18_Claim ==
  (probe.kind = "hit" /\ probe.done /\ probe.block # NullRef)
  => InBox(probe.x, probe.y,
           ScaledAboutCentre(Rect(CellHolding(probe.block), heap[probe.block].el),
                             probe.scale))

\* C24 (as claimed): a processMerge that runs on a grid, called directly or by
\* dragEnd, never ends with an error.
C24_Claim ==
  (lastReturn.op \in {"processMerge", "dragEnd"} /\ stateShape = "grid")
  => lastReturn.pm # "threw"

\* C25 (as claimed): for 1 <= min <= max and incrementPower >= 1 a
\* generateBlock that was not cancelled returns.
C25_Claim ==
  (/\ probe.kind = "generate"
   /\ probe.done
   /\ probe.res # "null"
   /\ probe.min >= 1
   /\ probe.min <= probe.max
   /\ probe.p >= 1)
  => probe.res # "never"

\* C21 (as claimed): a mousemove or touchmove that arrived while isDragging
\* was false changes nothing: selectedBlocks, currentBlock, isDragging, the
\* grid and the history are as before, and no block is selected ('after:
\* select' is not emitted).
C21_Claim ==
  [][\A t \in Tasks :
       (/\ tasks[t].kind = "drag"
        /\ ~tasks[t].start
        /\ tasks[t].idleAtCall
        /\ tasks'[t].kind = "idle")
       => /\ selectedBlocks' = selectedBlocks
          /\ currentBlock' = currentBlock
          /\ isDragging' = isDragging
          /\ stateHistory' = stateHistory
          /\ GridSame
          /\ lastReturn'.rule # "accepted"]_vars

\* C22 (as claimed): a dragEnd that resumes after this.selectedBlocks was
\* replaced by the array of a later gesture does not change selectedBlocks.
C22_Claim ==
  [][\A t \in Tasks :
       (/\ tasks[t].kind = "dragEnd"
        /\ tasks[t].pc # "dragEnd_before"
        /\ Stepped(t)
        /\ ~tasks[t].ownArray)
       => selectedBlocks' = selectedBlocks]_vars

\* C23 (as claimed): whenever no call is in progress and isDragging is false,
\* selectedBlocks is empty and currentBlock is unset.
C23_Claim ==
  (NoneInProgress /\ ~isDragging) => (selectedBlocks = <<>> /\ currentBlock = NullRef)

====
